---- MODULE Spec2Model ----
(***************************************************************************)
(* Model of the server lifecycle supervisor of create-python-server:       *)
(*   src/src/create_mcp_server/server/manager.py  (ServerManager)          *)
(*   src/src/create_mcp_server/utils/process.py   (run_background_process, *)
(*                                                  kill_process)          *)
(*                                                                         *)
(* ServerManager's coroutines run on one asyncio event loop: the code      *)
(* between two awaits is one atomic step.  start() suspends at the port    *)
(* probe, at every health GET and at every asyncio.sleep(0.5); stop()      *)
(* contains no await (psutil.wait_procs and Popen.wait block the thread),  *)
(* so a whole stop() is one step.  The operating system (the spawned       *)
(* processes) and whoever else listens on the port move on their own.      *)
(* The two monitor loops and the stop() tasks the signal handler creates   *)
(* are further tasks of the same event loop.                               *)
(***************************************************************************)
EXTENDS Integers, Sequences, FiniteSets, TLC

\* ------------------------------------------------------------------ bounds
MaxSpawn == 2              \* processes the manager may spawn in one run
MaxSignals == 1            \* stop() tasks of the signal handler not yet run
MaxChildren == 1           \* live child processes of the spawned servers

\* ------------------------------------------------------- program constants
STARTUP_TIMEOUT == 30      \* seconds
SHUTDOWN_TIMEOUT == 5      \* seconds
HEALTH_CHECK_TIMEOUT == 5  \* seconds, ClientTimeout(total=...) of a health GET
TicksPerSecond == 2        \* the clock counts asyncio.sleep(0.5) periods
PollSleepTicks == 1        \* asyncio.sleep(0.5) between two startup polls

None == 0                  \* Python's None for an Optional[Popen] / pid
Pids == 1..MaxSpawn
Callers == {"a", "b"}      \* tasks of the event loop that call the manager
ConfigHosts == {"127.0.0.1", "10.0.0.5"}   \* values of ServerConfig.host
HttpStatus == {"200", "500"}
ConnFailure == {"conn_error", "timeout"}

VARIABLES
    timed,       \* TRUE: the wall clock of _wait_for_startup is tracked
    cfgHost,     \* self.config.host
    foreign,     \* another program's responder on the configured port
    process,     \* self.process (None or the pid of the Popen)
    children,    \* self._child_processes
    healthTask,  \* self._health_check_task is not None
    statusTask,  \* self._status_monitor_task is not None
    live,        \* number of monitor tasks created and not cancelled
    hpc,         \* where the referenced health task is suspended: "wait"
                 \* (just created, or in asyncio.sleep), "get", or "none"
    kids,        \* operating system: the servers with a live child process
    ksig,        \* operating system: signals delivered to a server's child
    sigTasks,    \* stop() tasks the signal handler created, not yet run
    osp,         \* operating system: state of every pid
    sig,         \* operating system: signals delivered to every pid, in order
    nextPid,     \* next pid the operating system hands out
    pc,          \* where each caller's coroutine is suspended
    lastError,   \* _wait_for_startup's local last_error
    elapsed,     \* time.time() - start_time of _wait_for_startup, in ticks
    mine,        \* the pid the caller's current start() spawned (None if none)
    ev           \* the step just taken and what it returned or raised

vars == <<timed, cfgHost, foreign, process, children, healthTask, statusTask,
          live, hpc, kids, ksig, sigTasks, osp, sig, nextPid, pc, lastError,
          elapsed, mine, ev>>

\* what no call of the manager changes: its surroundings and the tasks the
\* signal handler has scheduled
envVars == <<timed, cfgHost, foreign, sigTasks>>
mgrVars == <<process, children, healthTask, statusTask, live, hpc, kids,
             ksig, osp, sig>>

\* The manager's fields together with the operating-system state its calls
\* read and change, as one value the operators below transform.
Mgr ==
    [process |-> process, children |-> children, healthTask |-> healthTask,
     statusTask |-> statusTask, live |-> live, hpc |-> hpc, kids |-> kids,
     ksig |-> ksig, osp |-> osp, sig |-> sig]

SetMgr(m) ==
    /\ process' = m.process
    /\ children' = m.children
    /\ healthTask' = m.healthTask
    /\ statusTask' = m.statusTask
    /\ live' = m.live
    /\ hpc' = m.hpc
    /\ kids' = m.kids
    /\ ksig' = m.ksig
    /\ osp' = m.osp
    /\ sig' = m.sig

\* ------------------------------------------------------------- environment
NoResponder == [host |-> "none", status |-> "none"]
Responders == [host : ConfigHosts, status : {"200"}]

\* http://localhost:... is served by whatever listens on the loopback address
Resolve(h) == IF h = "localhost" THEN "127.0.0.1" ELSE h

Alive(m, p) == p # None /\ m.osp[p] = "alive"

\* requests without a timeout: where nothing listens the request stays open
Responses_no_timeout(urlHost) ==
    IF foreign.host = Resolve(urlHost)
    THEN {foreign.status}
    ELSE IF cfgHost = Resolve(urlHost) /\ \E p \in Pids : osp[p] = "alive"
    THEN HttpStatus ELSE {}

\* What a GET http://<urlHost>:<port>/health can come back with.  A foreign
\* responder bound to that address answers with its status; otherwise a server
\* the manager spawned (it binds config.host) may answer anything, and with no
\* listener the connection fails or times out.
Responses(urlHost) ==
    IF foreign.host = Resolve(urlHost)
    THEN {foreign.status}
    ELSE ConnFailure \cup
         (IF cfgHost = Resolve(urlHost) /\ \E p \in Pids : osp[p] = "alive"
          THEN HttpStatus ELSE {})

\* the responders a request of the manager can meet: those bound where the
\* probe looks or where the configured host is
RelevantResponders ==
    {r \in Responders : r.host \in {Resolve("localhost"), cfgHost}}

\* Inputs the operating system gives a stop(): what Popen.terminate() does and
\* whether the process exits within the timeout of Popen.wait(timeout).
StopInputs == [term : {"ok", "lookup", "error"}, exits : BOOLEAN]
NoInput == [term |-> "ok", exits |-> TRUE]
\* the inputs that matter to stop() in state m: none when nothing is signalled
StopInputsFor(m) == IF Alive(m, m.process) THEN StopInputs ELSE {NoInput}
SpawnOutcomes == {"ok", "popen_error", "exited_early"}

\* ------------------------------------------------ utils/process.py helpers
NoKill == [pid |-> None, term |-> "none", wait |-> "none", kill |-> "none",
           waited |-> 0]

\* kill_process without its poll() test: terminate() is sent to a process
\* that has exited already
kill_process_nopoll(m, pid, timeout, in) ==
    IF in.term # "ok"
    THEN [m |-> m, kp |-> [NoKill EXCEPT !.pid = pid, !.term = in.term]]
    ELSE [m |-> [m EXCEPT !.osp[pid] = "exited",
                          !.sig[pid] = Append(@, "TERM")],
          kp |-> [pid |-> pid, term |-> "ok", wait |-> "exited",
                  kill |-> "none", waited |-> 0]]

\* kill_process that does not wait for the graceful exit: terminate() and
\* kill() are sent back to back
kill_process_eager(m, pid, timeout, in) ==
    IF ~Alive(m, pid)
    THEN [m |-> m, kp |-> [NoKill EXCEPT !.pid = pid]]
    ELSE [m |-> [m EXCEPT !.osp[pid] = "exited",
                          !.sig[pid] = Append(Append(@, "TERM"), "KILL")],
          kp |-> [pid |-> pid, term |-> "ok",
                  wait |-> IF in.exits THEN "exited" ELSE "timeout",
                  kill |-> "ok", waited |-> 0]]

\* kill_process(process, timeout): poll(); terminate(); wait(timeout); on
\* TimeoutExpired kill() and wait().  ProcessLookupError is passed over, any
\* other exception is logged: kill_process itself never raises.
\* Result: the new state and a record of what was done.
kill_process(m, pid, timeout, in) ==
    IF ~Alive(m, pid)
    THEN [m |-> m, kp |-> [NoKill EXCEPT !.pid = pid]]
    ELSE IF in.term = "lookup"      \* the process went away under terminate()
    THEN [m |-> [m EXCEPT !.osp[pid] = "exited"],
          kp |-> [NoKill EXCEPT !.pid = pid, !.term = "lookup"]]
    ELSE IF in.term = "error"       \* terminate() raised: logged, nothing more
    THEN [m |-> m, kp |-> [NoKill EXCEPT !.pid = pid, !.term = "error"]]
    ELSE IF in.exits                \* wait(timeout) returned
    THEN [m |-> [m EXCEPT !.osp[pid] = "exited",
                          !.sig[pid] = Append(@, "TERM")],
          kp |-> [pid |-> pid, term |-> "ok", wait |-> "exited",
                  kill |-> "none", waited |-> 0]]
    ELSE                            \* TimeoutExpired: kill(), wait()
         [m |-> [m EXCEPT !.osp[pid] = "exited",
                          !.sig[pid] = Append(Append(@, "TERM"), "KILL")],
          kp |-> [pid |-> pid, term |-> "ok", wait |-> "timeout",
                  kill |-> "ok", waited |-> timeout * TicksPerSecond]]

\* run_background_process without its poll() after the short sleep: a process
\* that has exited already is handed back like a running one
run_background_process_unchecked(m, pid, outcome) ==
    IF outcome = "popen_error"
    THEN [m |-> m, pid |-> None, spawned |-> None,
          msg |-> {"Failed to start process"}]
    ELSE [m |-> [m EXCEPT !.osp[pid] = IF outcome = "exited_early"
                                       THEN "exited" ELSE "alive"],
          pid |-> pid, spawned |-> pid, msg |-> {}]

\* run_background_process(args, cwd, env): Popen, sleep(0.1), poll().
\* "popen_error": Popen raised (no process); "exited_early": the process had
\* exited at the check, CommandError with its stdout and stderr.  Both leave as
\* ProcessError("Failed to start process: ...").
run_background_process(m, pid, outcome) ==
    IF outcome = "popen_error"
    THEN [m |-> m, pid |-> None, spawned |-> None,
          msg |-> {"Failed to start process"}]
    ELSE IF outcome = "exited_early"
    THEN [m |-> [m EXCEPT !.osp[pid] = "exited"], pid |-> None,
          spawned |-> pid,
          msg |-> {"Failed to start process", "stdout", "stderr"}]
    ELSE [m |-> [m EXCEPT !.osp[pid] = "alive"], pid |-> pid,
          spawned |-> pid, msg |-> {}]

\* ------------------------------------------------- ServerManager's helpers
\* a probe that takes only status 200 for a port in use
is_port_available_unless_200(resp) == resp # "200"

\* _is_port_available: any response to GET http://localhost:{port}/health
\* means in use; any exception means available.
is_port_available(resp) == resp \notin HttpStatus

ProbeUrlHost == "localhost"

\* a startup poll that takes every HTTP response for health
healthy_any_status(resp) == resp \in HttpStatus

\* _wait_for_startup, line 324: only status 200 ends the wait
healthy(resp) == resp = "200"

\* _start_monitoring: create each task only when its reference is None
start_monitoring(m) ==
    [m EXCEPT !.healthTask = TRUE,
              !.statusTask = TRUE,
              !.hpc = IF m.healthTask THEN @ ELSE "wait",
              !.live = @ + (IF m.healthTask THEN 0 ELSE 1)
                         + (IF m.statusTask THEN 0 ELSE 1)]

\* a monitor task with a cancellation requested whose handler for Exception
\* takes the CancelledError raised in the GET: the failure handler runs and
\* the loop goes on
resume_cancelled_caught(place) ==
    IF place = "get"
    THEN [did |-> {"handler"}, ends |-> FALSE]
    ELSE [did |-> {}, ends |-> TRUE]

\* What a monitor task with a cancellation requested does when the event loop
\* resumes it: CancelledError is raised at the await it is suspended in.  In
\* asyncio.sleep nothing handles it; in the GET the handler is `except
\* Exception`, which CancelledError (a BaseException) passes.  Either way the
\* task ends and has done nothing.
resume_cancelled(place) == [did |-> {}, ends |-> TRUE]

\* the monitor tasks _stop_monitoring() finds referenced, by the place each
\* is suspended at
Referenced(m) ==
    (IF m.healthTask THEN {[task |-> "health", place |-> m.hpc]} ELSE {})
    \cup (IF m.statusTask THEN {[task |-> "status", place |-> "wait"]} ELSE {})

\* _stop_monitoring: cancel each task that is referenced, drop the reference.
\* Task.cancel() requests the cancellation; a task that ends on it is no
\* monitor any more.
stop_monitoring(m) ==
    [m EXCEPT !.healthTask = FALSE,
              !.statusTask = FALSE,
              !.hpc = "none",
              !.live = @ - Cardinality({t \in Referenced(m) :
                                          resume_cancelled(t.place).ends})]

\* what the tasks _stop_monitoring() cancels in state m still do
AfterCancel(m) == UNION {resume_cancelled(t.place).did : t \in Referenced(m)}

\* for proc in self._child_processes: proc.terminate(), NoSuchProcess passed
\* over; psutil.wait_procs(the set, timeout): a child is named by the server
\* that spawned it, and a terminated child exits.
terminate_children(m) ==
    [m EXCEPT !.ksig = [p \in Pids |->
                          IF p \in m.children /\ p \in m.kids
                          THEN Append(m.ksig[p], "TERM") ELSE m.ksig[p]],
              !.kids = @ \ m.children]

\* What a stop() did: whether it got past the early return, the pid it found
\* tracked, the monitor tasks it cancelled, whether the health task was in
\* its GET then, what the cancelled tasks still did, the
\* monitor tasks not yet cancelled when the first signal could go out, what
\* kill_process did.
NoStop == [called |-> FALSE, ran |-> FALSE, pid |-> None, cancelled |-> 0,
           inGet |-> FALSE, afterCancel |-> {}, liveAtSignal |-> 0,
           kp |-> NoKill, raised |-> FALSE]

\* a stop() that takes the missing handle for a failure
stop_failing_when_clear(m, in) ==
    IF m.process = None
    THEN [m |-> m, rec |-> [NoStop EXCEPT !.called = TRUE, !.raised = TRUE]]
    ELSE LET m1 == stop_monitoring(m)
             m2 == terminate_children(m1)
             k  == kill_process(m2, m.process, SHUTDOWN_TIMEOUT, in)
         IN  [m |-> [k.m EXCEPT !.process = None, !.children = {}],
              rec |-> [called |-> TRUE, ran |-> TRUE, pid |-> m.process,
                       cancelled |-> Cardinality(Referenced(m)),
                       inGet |-> m.hpc = "get",
                       afterCancel |-> AfterCancel(m),
                       liveAtSignal |-> m1.live, kp |-> k.kp,
                       raised |-> FALSE]]

\* a stop() to which the failure of terminate() is raised: it leaves as
\* ServerStopError
stop_raising_kill_error(m, in) ==
    IF m.process = None
    THEN [m |-> m, rec |-> [NoStop EXCEPT !.called = TRUE]]
    ELSE LET m1 == stop_monitoring(m)
             m2 == terminate_children(m1)
             k  == kill_process(m2, m.process, SHUTDOWN_TIMEOUT, in)
         IN  [m |-> [k.m EXCEPT !.process = None, !.children = {}],
              rec |-> [called |-> TRUE, ran |-> TRUE, pid |-> m.process,
                       cancelled |-> Cardinality(Referenced(m)),
                       inGet |-> m.hpc = "get",
                       afterCancel |-> AfterCancel(m),
                       liveAtSignal |-> m1.live, kp |-> k.kp,
                       raised |-> k.kp.term = "error"]]

\* stop() with the termination sequence ahead of _stop_monitoring()
stop_signals_first(m, in) ==
    IF m.process = None
    THEN [m |-> m, rec |-> [NoStop EXCEPT !.called = TRUE]]
    ELSE LET m1 == terminate_children(m)
             k  == kill_process(m1, m.process, SHUTDOWN_TIMEOUT, in)
             m2 == stop_monitoring(k.m)
         IN  [m |-> [m2 EXCEPT !.process = None, !.children = {}],
              rec |-> [called |-> TRUE, ran |-> TRUE, pid |-> m.process,
                       cancelled |-> Cardinality(Referenced(k.m)),
                       inGet |-> k.m.hpc = "get",
                       afterCancel |-> AfterCancel(k.m),
                       liveAtSignal |-> m.live, kp |-> k.kp,
                       raised |-> FALSE]]

\* stop(): returns at once when self.process is None; otherwise cancels the
\* monitors, terminates the children, kill_process(self.process) and, in the
\* finally clause, clears self.process and the child set.  An exception of the
\* try block leaves as ServerStopError (kill_process raises none).
stop(m, in) ==
    IF m.process = None
    THEN [m |-> m, rec |-> [NoStop EXCEPT !.called = TRUE]]
    ELSE LET m1 == stop_monitoring(m)
             m2 == terminate_children(m1)
             k  == kill_process(m2, m.process, SHUTDOWN_TIMEOUT, in)
         IN  [m |-> [k.m EXCEPT !.process = None, !.children = {}],
              rec |-> [called |-> TRUE, ran |-> TRUE, pid |-> m.process,
                       cancelled |-> Cardinality(Referenced(m)),
                       inGet |-> m.hpc = "get",
                       afterCancel |-> AfterCancel(m),
                       liveAtSignal |-> m1.live, kp |-> k.kp,
                       raised |-> FALSE]]

\* a failure handler that takes the server down
handle_health_failure_stopping(m) == stop(m, NoInput).m

\* _handle_health_failure(reason): logs, and changes nothing
handle_health_failure(m) == m

\* get_status(): running is False when there is no process or poll() is not
\* None (pid None); True with the pid when psutil can inspect the process;
\* False with the pid and an error when psutil raises NoSuchProcess or
\* AccessDenied.
Introspection == {"ok", "NoSuchProcess", "AccessDenied"}

\* get_status() without its except clause: what psutil raises leaves the call
get_status_uncaught(m, intro) ==
    IF ~Alive(m, m.process)
    THEN [running |-> FALSE, pid |-> None, error |-> "none", raised |-> FALSE]
    ELSE IF intro = "ok"
    THEN [running |-> TRUE, pid |-> m.process, error |-> "none",
          raised |-> FALSE]
    ELSE [running |-> FALSE, pid |-> None, error |-> intro, raised |-> TRUE]

get_status(m, intro) ==
    IF ~Alive(m, m.process)
    THEN [running |-> FALSE, pid |-> None, error |-> "none", raised |-> FALSE]
    ELSE IF intro = "ok"
    THEN [running |-> TRUE, pid |-> m.process, error |-> "none",
          raised |-> FALSE]
    ELSE [running |-> FALSE, pid |-> m.process, error |-> intro,
          raised |-> FALSE]

\* a get_status() that forgets the process it finds gone
introspect_forgetting(m, intro) ==
    IF Alive(m, m.process) /\ intro = "NoSuchProcess"
    THEN [m EXCEPT !.osp[m.process] = "exited", !.process = None]
    ELSE m

\* What a get_status() leaves behind: it assigns no field of the manager; a
\* NoSuchProcess answer of psutil means the process went away after poll().
introspect(m, intro) ==
    IF Alive(m, m.process) /\ intro = "NoSuchProcess"
    THEN [m EXCEPT !.osp[m.process] = "exited"]
    ELSE m

\* ------------------------------------------------------------------ events
NoStatus == [running |-> FALSE, pid |-> None, error |-> "unasked",
             raised |-> FALSE]

\* ev: who took the last step, the public method it belongs to, the place the
\* step resumed at, what the method returned or raised at this step ("pending"
\* while it is suspended again), why, the tokens of the exception's message,
\* the pid the step spawned, the stop() the step ran, the ticks since polling
\* began when start() raised, the pid the start() that ends here had spawned,
\* the status a get_status() step returned, and what the request the step
\* resumed from (port probe, startup health GET) came back with.
Event(who, op, step, res, cause, msg, spawned, st, took) ==
    [who |-> who, op |-> op, step |-> step, res |-> res, cause |-> cause,
     msg |-> msg, spawned |-> spawned, stop |-> st, took |-> took,
     mine |-> None, status |-> NoStatus, resp |-> "none"]

EnvEvent ==
    Event("env", "none", "none", "none", "none", {}, None, NoStop, 0)

\* a step of a monitor task: which task (the health task, a cancelled task)
\* and what it did
MonitorEvent(who, did) ==
    Event(who, "monitor", "none", "none", "none", did, None, NoStop, 0)

\* str(e) of what a failed health GET left in last_error
LastErrorOf(resp) ==
    IF resp \in HttpStatus THEN "Health check failed with status" ELSE resp

\* ticks a health GET may take: a timeout takes ClientTimeout(total) exactly
GetTicks(resp) ==
    IF ~timed THEN {0}
    ELSE IF resp = "timeout" THEN {HEALTH_CHECK_TIMEOUT * TicksPerSecond}
    ELSE 0..(HEALTH_CHECK_TIMEOUT * TicksPerSecond)

\* The calling tasks are interchangeable: a call is made by task "a" when it
\* is idle, by task "b" while "a" is suspended inside start().  With the clock
\* tracked only "a" calls.
Idle(c) ==
    /\ pc[c] = "idle"
    /\ c = "a" \/ (~timed /\ pc["a"] # "idle")

Probing == {c \in Callers : pc[c] = "probe"}

\* the guard with its poll() test the wrong way round
AlreadyRunning_inverted(m) == m.process # None /\ m.osp[m.process] # "alive"

\* start(), line 154: the re-entrancy guard
AlreadyRunning(m) == m.process # None /\ m.osp[m.process] = "alive"

\* start()'s except clause: await self.stop(), then raise ServerStartError
\* carrying str(e).  A ServerStopError raised by that stop() replaces it.
\* `at` is the time since polling began, the cleanup's wait comes on top;
\* `resp` is what the request this step resumed from came back with.
StartRaises(c, step, m, cause, inner, spawned, at, resp) ==
    \E in \in StopInputsFor(m) :
    LET r == stop(m, in)
    IN  /\ SetMgr(r.m)
        /\ pc' = [pc EXCEPT ![c] = "idle"]
        /\ lastError' = [lastError EXCEPT ![c] = "None"]
        /\ elapsed' = [elapsed EXCEPT ![c] = 0]
        /\ mine' = [mine EXCEPT ![c] = None]
        /\ ev' = [Event(c, "start", step,
                        IF r.rec.raised THEN "ServerStopError"
                                        ELSE "ServerStartError",
                        cause, {"Failed to start server"} \cup inner, spawned,
                        r.rec, IF timed THEN at + r.rec.kp.waited ELSE 0)
                  EXCEPT !.mine = IF spawned # None THEN spawned ELSE mine[c],
                         !.resp = resp]

\* start() from its entry to its first await: the guard, then the port probe
\* is issued.  `st` is the stop() that restart() ran first, if any.
StartEnters(c, op, m, st) ==
    /\ SetMgr(m)
    /\ UNCHANGED <<lastError, elapsed, nextPid, mine>>
    /\ IF AlreadyRunning(m)
       THEN /\ pc' = pc
            /\ ev' = Event(c, op, "call", "returned", "already_running", {},
                           None, st, 0)
       ELSE /\ nextPid + Cardinality(Probing) <= MaxSpawn
            /\ pc' = [pc EXCEPT ![c] = "probe"]
            /\ ev' = Event(c, op, "call", "pending", "none", {}, None, st, 0)

\* ----------------------------------------------------------------- actions
\* await manager.start()
StartCall(c) ==
    /\ Idle(c)
    /\ StartEnters(c, "start", Mgr, NoStop)
    /\ UNCHANGED envVars

\* start() resumes with the port probe's answer: raises when the port is in
\* use (outside the try), otherwise run_background_process, and on success
\* _wait_for_startup runs to its first health GET.
ProbeDone(c) ==
    /\ pc[c] = "probe"
    /\ UNCHANGED envVars
    /\ \E resp \in Responses(ProbeUrlHost) :
         IF ~is_port_available(resp)
         THEN /\ pc' = [pc EXCEPT ![c] = "idle"]
              /\ ev' = [Event(c, "start", "probe", "ServerStartError",
                              "port_in_use", {"Port is already in use"}, None,
                              NoStop, 0) EXCEPT !.resp = resp]
              /\ UNCHANGED <<mgrVars, nextPid, lastError, elapsed, mine>>
         ELSE \E outcome \in SpawnOutcomes :
              LET r == run_background_process(Mgr, nextPid, outcome)
              IN  /\ nextPid' = IF r.spawned = None THEN nextPid
                                                     ELSE nextPid + 1
                  /\ IF r.pid = None
                     THEN StartRaises(c, "probe", r.m, "spawn_failed", r.msg,
                                      r.spawned, 0, resp)
                     ELSE /\ SetMgr([r.m EXCEPT !.process = r.pid])
                          /\ mine' = [mine EXCEPT ![c] = r.pid]
                          /\ pc' = [pc EXCEPT ![c] = "get"]
                          /\ lastError' = [lastError EXCEPT ![c] = "None"]
                          /\ elapsed' = [elapsed EXCEPT ![c] = 0]
                          /\ ev' = [Event(c, "start", "probe", "pending",
                                          "none", {}, r.pid, NoStop, 0)
                                    EXCEPT !.resp = resp]

\* _wait_for_startup resumes with the health GET's answer: 200 ends the wait,
\* start() creates the monitors and returns; anything else is remembered in
\* last_error and the loop sleeps.
GetDone(c) ==
    /\ pc[c] = "get"
    /\ UNCHANGED <<envVars, nextPid>>
    /\ \E resp \in Responses(cfgHost) :
         IF healthy(resp)
         THEN /\ SetMgr(start_monitoring(Mgr))
              /\ pc' = [pc EXCEPT ![c] = "idle"]
              /\ lastError' = [lastError EXCEPT ![c] = "None"]
              /\ elapsed' = [elapsed EXCEPT ![c] = 0]
              /\ mine' = [mine EXCEPT ![c] = None]
              /\ ev' = [Event(c, "start", "get", "returned", "healthy", {},
                              None, NoStop, 0)
                        EXCEPT !.mine = mine[c], !.resp = resp]
         ELSE \E d \in GetTicks(resp) :
              /\ UNCHANGED <<mgrVars, mine>>
              /\ pc' = [pc EXCEPT ![c] = "sleep"]
              /\ lastError' = [lastError EXCEPT ![c] = LastErrorOf(resp)]
              /\ elapsed' = [elapsed EXCEPT ![c] = @ + d]
              /\ ev' = [Event(c, "start", "get", "pending", "none", {}, None,
                              NoStop, 0) EXCEPT !.resp = resp]

\* _wait_for_startup resumes from asyncio.sleep(0.5) at the loop's head: the
\* deadline test, then the poll() of self.process, then the next health GET.
\* Without the clock the deadline test may come out either way.
SleepDone(c) ==
    /\ pc[c] = "sleep"
    /\ UNCHANGED <<envVars, nextPid>>
    /\ \E expired \in (IF timed THEN {FALSE} ELSE BOOLEAN) :
         LET now == IF timed THEN elapsed[c] + PollSleepTicks ELSE 0
             over == IF timed
                     THEN ~(now < STARTUP_TIMEOUT * TicksPerSecond)
                     ELSE expired
         IN  IF over
             THEN StartRaises(c, "sleep", Mgr, "timeout",
                              {"Server failed to start within", lastError[c]},
                              None, now, "none")
             ELSE IF process = None      \* None.poll(): AttributeError
             THEN StartRaises(c, "sleep", Mgr, "no_handle",
                              {"NoneType has no attribute poll"}, None, now,
                              "none")
             ELSE IF osp[process] # "alive"
             THEN StartRaises(c, "sleep", Mgr, "died",
                              {"Server process terminated unexpectedly",
                               "stdout", "stderr"}, None, now, "none")
             ELSE /\ UNCHANGED <<mgrVars, lastError, mine>>
                  /\ pc' = [pc EXCEPT ![c] = "get"]
                  /\ elapsed' = [elapsed EXCEPT ![c] = now]
                  /\ ev' = Event(c, "start", "sleep", "pending", "none", {},
                                 None, NoStop, 0)

\* await manager.stop()
StopCall(c) ==
    /\ Idle(c)
    /\ UNCHANGED <<envVars, nextPid, pc, lastError, elapsed, mine>>
    /\ \E in \in StopInputsFor(Mgr) :
         LET r == stop(Mgr, in)
         IN  /\ SetMgr(r.m)
             /\ ev' = Event(c, "stop", "call",
                            IF r.rec.raised THEN "ServerStopError"
                                            ELSE "returned",
                            "none", {}, None, r.rec, 0)

\* await manager.restart(): stop(), then start() up to its first await
RestartCall(c) ==
    /\ Idle(c)
    /\ UNCHANGED envVars
    /\ \E in \in StopInputsFor(Mgr) :
         LET r == stop(Mgr, in)
         IN  IF r.rec.raised
             THEN /\ SetMgr(r.m)
                  /\ UNCHANGED <<nextPid, pc, lastError, elapsed, mine>>
                  /\ ev' = Event(c, "restart", "call", "ServerStopError",
                                 "stop_failed", {"Failed to stop server"},
                                 None, r.rec, 0)
             ELSE StartEnters(c, "restart", r.m, r.rec)

\* await manager.get_status(); a NoSuchProcess answer means the process went
\* away after poll()
StatusCall(c) ==
    /\ Idle(c)
    /\ UNCHANGED <<envVars, nextPid, pc, lastError, elapsed, mine>>
    /\ \E intro \in Introspection :
         LET s == get_status(Mgr, intro)
         IN  /\ SetMgr(introspect(Mgr, intro))
             /\ ev' = [Event(c, "status", "call",
                             IF s.raised THEN s.error ELSE "returned",
                             "none", {}, None, NoStop, 0)
                       EXCEPT !.status = s]

\* a spawned process exits on its own
ProcExit(p) ==
    /\ osp[p] = "alive"
    /\ osp' = [osp EXCEPT ![p] = "exited"]
    /\ ev' = EnvEvent
    /\ UNCHANGED <<envVars, process, children, healthTask, statusTask, live,
                   hpc, kids, ksig, sig, nextPid, pc, lastError, elapsed,
                   mine>>

\* another program starts, or stops, answering on the configured port
ForeignUp ==
    /\ foreign = NoResponder
    /\ foreign' \in RelevantResponders
    /\ ev' = EnvEvent
    /\ UNCHANGED <<timed, cfgHost, sigTasks, mgrVars, nextPid, pc, lastError,
                   elapsed, mine>>

ForeignDown ==
    /\ foreign # NoResponder
    /\ foreign' = NoResponder
    /\ ev' = EnvEvent
    /\ UNCHANGED <<timed, cfgHost, sigTasks, mgrVars, nextPid, pc, lastError,
                   elapsed, mine>>

\* SIGINT or SIGTERM reaches the supervising process: _signal_handler creates
\* a task for stop().  Only signals that arrive while a process is tracked are
\* followed: a stop() task created before does what one created when the
\* handle was set does.
SignalDelivered ==
    /\ process # None
    /\ sigTasks < MaxSignals
    /\ sigTasks' = sigTasks + 1
    /\ ev' = EnvEvent
    /\ UNCHANGED <<timed, cfgHost, foreign, mgrVars, nextPid, pc, lastError,
                   elapsed, mine>>

\* the event loop runs a stop() task the signal handler created
SignalStop ==
    /\ sigTasks > 0
    /\ sigTasks' = sigTasks - 1
    /\ UNCHANGED <<timed, cfgHost, foreign, nextPid, pc, lastError, elapsed,
                   mine>>
    /\ \E in \in StopInputsFor(Mgr) :
         LET r == stop(Mgr, in)
         IN  /\ SetMgr(r.m)
             /\ ev' = Event("signal", "stop", "call",
                            IF r.rec.raised THEN "ServerStopError"
                                            ELSE "returned",
                            "none", {}, None, r.rec, 0)

\* _health_check_loop at the head of an iteration: the GET is issued
HealthProbe ==
    /\ hpc = "wait"
    /\ hpc' = "get"
    /\ ev' = EnvEvent
    /\ UNCHANGED <<envVars, process, children, healthTask, statusTask, live,
                   kids, ksig, osp, sig, nextPid, pc, lastError, elapsed,
                   mine>>

\* _health_check_loop resumes with the GET's answer: anything but 200 goes to
\* _handle_health_failure, which logs; then asyncio.sleep
HealthAnswer ==
    /\ hpc = "get"
    /\ \E resp \in Responses(cfgHost) :
         LET m == IF resp = "200" THEN Mgr ELSE handle_health_failure(Mgr)
         IN  /\ SetMgr([m EXCEPT !.hpc = IF m.healthTask THEN "wait"
                                                         ELSE "none"])
             /\ ev' = IF resp = "200" THEN EnvEvent
                      ELSE MonitorEvent("health", {"handler"})
    /\ UNCHANGED <<envVars, nextPid, pc, lastError, elapsed, mine>>

\* _status_monitor_loop runs an iteration: get_status(), the two threshold
\* warnings, then asyncio.sleep
StatusSample ==
    /\ statusTask
    /\ \E intro \in Introspection : SetMgr(introspect(Mgr, intro))
    /\ ev' = EnvEvent
    /\ UNCHANGED <<envVars, nextPid, pc, lastError, elapsed, mine>>

\* the supervised server starts a child process of its own
ChildSpawn(p) ==
    /\ p = process
    /\ osp[p] = "alive"
    /\ p \notin kids
    /\ Cardinality(kids) < MaxChildren
    /\ kids' = kids \cup {p}
    /\ ev' = EnvEvent
    /\ UNCHANGED <<envVars, process, children, healthTask, statusTask, live,
                   hpc, ksig, osp, sig, nextPid, pc, lastError, elapsed,
                   mine>>

\* a server's child process exits on its own
ChildExit(p) ==
    /\ p \in kids
    /\ kids' = kids \ {p}
    /\ ev' = EnvEvent
    /\ UNCHANGED <<envVars, process, children, healthTask, statusTask, live,
                   hpc, ksig, osp, sig, nextPid, pc, lastError, elapsed,
                   mine>>

\* the task awaiting start() is cancelled while start() is suspended in a
\* startup health GET or in the sleep between two polls: CancelledError is
\* raised at that await.  It is a BaseException, so neither the handler of
\* line 328 nor start()'s `except Exception` of line 195 takes it: no cleanup
\* runs and start() leaves with CancelledError.
CancelStart(c) ==
    /\ pc[c] \in {"get", "sleep"}
    /\ pc' = [pc EXCEPT ![c] = "idle"]
    /\ lastError' = [lastError EXCEPT ![c] = "None"]
    /\ elapsed' = [elapsed EXCEPT ![c] = 0]
    /\ mine' = [mine EXCEPT ![c] = None]
    /\ ev' = [Event(c, "start", pc[c], "CancelledError", "cancelled", {},
                    None, NoStop, 0) EXCEPT !.mine = mine[c]]
    /\ UNCHANGED <<envVars, mgrVars, nextPid>>

\* a `with manager:` block is left: __exit__ calls self.stop() without
\* awaiting it, which makes a coroutine object and runs none of stop()
ExitSync(c) ==
    /\ Idle(c)
    /\ ev' = Event(c, "exit", "call", "returned", "none", {}, None, NoStop, 0)
    /\ UNCHANGED <<envVars, mgrVars, nextPid, pc, lastError, elapsed, mine>>

\* an `async with manager:` block is left: __aexit__ awaits self.stop()
ExitAsync(c) ==
    /\ Idle(c)
    /\ UNCHANGED <<envVars, nextPid, pc, lastError, elapsed, mine>>
    /\ \E in \in StopInputsFor(Mgr) :
         LET r == stop(Mgr, in)
         IN  /\ SetMgr(r.m)
             /\ ev' = Event(c, "aexit", "call",
                            IF r.rec.raised THEN "ServerStopError"
                                            ELSE "returned",
                            "none", {}, None, r.rec, 0)

\* ------------------------------------------------------------ specification
InitState ==
    /\ cfgHost \in ConfigHosts
    /\ foreign \in {NoResponder} \cup RelevantResponders
    /\ process = None
    /\ children = {}
    /\ healthTask = FALSE
    /\ statusTask = FALSE
    /\ live = 0
    /\ hpc = "none"
    /\ kids = {}
    /\ ksig = [p \in Pids |-> <<>>]
    /\ sigTasks = 0
    /\ osp = [p \in Pids |-> "unborn"]
    /\ sig = [p \in Pids |-> <<>>]
    /\ nextPid = 1
    /\ lastError = [c \in Callers |-> "None"]
    /\ elapsed = [c \in Callers |-> 0]
    /\ mine = [c \in Callers |-> None]
    /\ ev = EnvEvent

InitCommon == InitState /\ pc = [c \in Callers |-> "idle"]

Init == timed = FALSE /\ InitCommon

\* a run in which only task "a" calls the manager
InitOne ==
    /\ timed = FALSE
    /\ InitState
    /\ pc = [c \in Callers |-> IF c = "a" THEN "idle" ELSE "absent"]

InitTimed == timed = TRUE /\ InitCommon

Next ==
    \/ \E c \in Callers : StartCall(c)
    \/ \E c \in Callers : ProbeDone(c)
    \/ \E c \in Callers : GetDone(c)
    \/ \E c \in Callers : SleepDone(c)
    \/ \E c \in Callers : StopCall(c)
    \/ \E c \in Callers : RestartCall(c)
    \/ \E c \in Callers : StatusCall(c)
    \/ \E p \in Pids : ProcExit(p)
    \/ ForeignUp
    \/ ForeignDown

\* the calls and the surroundings, and with them the other tasks of the event
\* loop: the two monitor loops and the stop() tasks of the signal handler
NextLoop ==
    \/ Next
    \/ HealthProbe
    \/ HealthAnswer
    \/ StatusSample
    \/ SignalDelivered
    \/ SignalStop

\* the calls and the surroundings, and with them the child processes of the
\* supervised server
NextTree ==
    \/ Next
    \/ \E p \in Pids : ChildSpawn(p)
    \/ \E p \in Pids : ChildExit(p)

\* the calls and the surroundings, and with them what the task that uses the
\* manager can do besides calling it: be cancelled, leave a with block
NextScope ==
    \/ Next
    \/ \E c \in Callers : CancelStart(c)
    \/ \E c \in Callers : ExitSync(c)
    \/ \E c \in Callers : ExitAsync(c)

\* any interleaving of calls, without clock
Spec == Init /\ [][Next]_vars

\* one calling task, with the startup clock
SpecTimed == InitTimed /\ [][Next]_vars

\* one calling task, the monitor loops and the signal handler
SpecLoop == InitOne /\ [][NextLoop]_vars

\* one calling task, and the server's child processes
SpecTree == InitOne /\ [][NextTree]_vars

\* one calling task that may be cancelled and uses the manager in with blocks
SpecScope == InitOne /\ [][NextScope]_vars

\* The event loop runs every callback that is ready: the stop() tasks of the
\* signal handler and the steps of a start() whose awaits (a GET with a timeout, a sleep) all end.
StartFairness ==
    \A c \in Callers :
      WF_vars(ProbeDone(c)) /\ WF_vars(GetDone(c)) /\ WF_vars(SleepDone(c))

Fairness == WF_vars(SignalStop) /\ StartFairness

SpecLoopFair == SpecLoop /\ Fairness

\* one calling task with the startup clock, the steps of start() run when
\* their awaits end
SpecTimedFair == SpecTimed /\ StartFairness

\* ================================================================== claims
LiveProcesses == {p \in Pids : osp[p] = "alive"}

\* the start() frame that took the last step: its public start()/restart()
StartStep == ev.op \in {"start", "restart"}

\* the pid spawned by the start() that took the last step
EvMine == IF ev.res = "pending" THEN mine[ev.who] ELSE ev.mine

\* C1: single-process-per-manager: in every reachable state at most one
\* process spawned by the manager is alive.
C1_SingleProcess == Cardinality(LiveProcesses) <= 1

\* C2: when start()'s port probe is answered while a responder serves
\* GET /health with 200 on the configured host and port, start() raises
\* ServerStartError ("port in use") and spawns no process.
C2_OccupiedPortRefused ==
    (/\ ev.op = "start" /\ ev.step = "probe"
     /\ foreign.host = cfgHost /\ foreign.status = "200")
    => (ev.res = "ServerStartError" /\ ev.cause = "port_in_use"
        /\ ev.spawned = None)

\* C3: in the state in which start() has just returned without raising,
\* get_status() reports running = True and the pid of the tracked process.
C3_StartedMeansRunning ==
    (StartStep /\ ev.res = "returned")
    => (/\ process # None
        /\ get_status(Mgr, "ok").running
        /\ get_status(Mgr, "ok").pid = process)

\* C4: in the state in which start() has just raised, the process handle is
\* cleared, no monitor task exists and the process this start() spawned, if
\* any, is not alive.
C4_FailedStartLeavesStopped ==
    (ev.op = "start" /\ ev.res \in {"ServerStartError", "ServerStopError"})
    => (/\ process = None
        /\ ~healthTask /\ ~statusTask /\ live = 0
        /\ (ev.mine # None => osp[ev.mine] # "alive"))

\* the manager is not running: no tracked process, or a tracked one that exited
NotRunning == ~get_status(Mgr, "ok").running

\* C5 as claimed: a stop() called while status().running is false changes
\* neither the process handle, the child set nor the monitor tasks, sends no
\* signal and raises nothing.
C5_StopIdempotent ==
    [][\A c \in Callers :
         (StopCall(c) /\ NotRunning)
         => (/\ UNCHANGED <<process, children, healthTask, statusTask, live>>
             /\ UNCHANGED <<sig, osp>>
             /\ ev'.res = "returned")]_vars

\* C5 amended: a stop() called while status().running is false raises
\* nothing and sends no signal; with no tracked process it changes nothing,
\* with a tracked process that has exited it clears the handle and the child
\* set and cancels the monitor tasks.
C5_StopWhenNotRunning ==
    [][\A c \in Callers :
         (StopCall(c) /\ NotRunning)
         => (/\ UNCHANGED <<sig, osp>>
             /\ ev'.res = "returned"
             /\ process = None
                => UNCHANGED <<process, children, healthTask, statusTask,
                               live>>
             /\ process # None
                => (/\ process' = None /\ children' = {}
                    /\ ~healthTask' /\ ~statusTask' /\ live' = 0))]_vars

\* a stop() has just run on a tracked process that had already exited
C5_Witness ==
    /\ ev.op = "stop" /\ ev.stop.ran /\ ev.stop.kp.term = "none"
    /\ osp[ev.stop.pid] = "exited" /\ process = None

\* C6: when a step of stop()'s termination sequence has failed (here
\* terminate() of the main process raised), stop() raises ServerStopError,
\* and the handle and the child set are cleared.
C6_StopFailureRaises ==
    (ev.op = "stop" /\ ev.stop.ran /\ ev.stop.kp.term = "error")
    => (ev.res = "ServerStopError" /\ process = None /\ children = {})

\* C7: a stop() whose terminate signal was not followed by the exit within
\* SHUTDOWN_TIMEOUT has sent kill after waiting that long, has waited for the
\* exit, and leaves status().running false; kill never comes before
\* terminate, and a process that exited within the deadline gets no kill.
C7_GracefulThenForced ==
    LET k == ev.stop.kp
    IN  /\ (ev.stop.ran /\ k.term = "ok" /\ k.wait = "timeout")
           => (/\ k.waited = SHUTDOWN_TIMEOUT * TicksPerSecond
               /\ sig[k.pid] = <<"TERM", "KILL">>
               /\ osp[k.pid] = "exited"
               /\ \A intro \in Introspection :
                    ~get_status(Mgr, intro).running)
        /\ \A p \in Pids : \A i \in 1..Len(sig[p]) :
             sig[p][i] = "KILL" => (i > 1 /\ sig[p][i - 1] = "TERM")
        /\ (ev.stop.ran /\ k.wait = "exited")
           => (sig[k.pid] = <<"TERM">> /\ osp[k.pid] = "exited")

\* a stop() has just force-killed a process that ignored terminate
C7_Witness ==
    /\ ev.op = "stop" /\ ev.stop.ran /\ ev.stop.kp.wait = "timeout"
    /\ sig[ev.stop.pid] = <<"TERM", "KILL">>

\* the process the polling start() spawned has exited on its own
DiedOnItsOwn ==
    /\ EvMine # None
    /\ osp[EvMine] = "exited"
    /\ sig[EvMine] = <<>>
    /\ ev.stop.kp.term # "lookup"

\* C8: once the spawned process has exited during health polling, start()
\* does not return successfully, and at the next iteration of the poll loop
\* it raises ServerStartError with the captured stdout and stderr.
C8_DeathFailsFast ==
    (ev.op = "start" /\ ev.step \in {"get", "sleep"} /\ DiedOnItsOwn)
    => (/\ ev.res # "returned"
        /\ ev.step = "sleep"
           => (/\ ev.res = "ServerStartError"
               /\ {"stdout", "stderr"} \subseteq ev.msg))

\* C9: when no health probe returned 200 and the deadline is found exceeded,
\* start() raises ServerStartError no later than STARTUP_TIMEOUT + 1 seconds
\* after polling began, with the last health error in the message.
C9_TimeoutBound ==
    (ev.op = "start" /\ ev.cause = "timeout")
    => (/\ ev.res = "ServerStartError"
        /\ ev.took <= (STARTUP_TIMEOUT + 1) * TicksPerSecond
        /\ ev.msg \cap ({"Health check failed with status"} \cup ConnFailure)
           # {})

\* C10: a start() called while the tracked process is alive returns without
\* error and changes nothing: no process is spawned, no probe is issued, the
\* handle and the monitor tasks stay as they are.
C10_StartWhileRunningIsNoop ==
    [][\A c \in Callers :
         (StartCall(c) /\ process # None /\ osp[process] = "alive")
         => (/\ UNCHANGED <<mgrVars, nextPid, pc, lastError, elapsed, mine>>
             /\ ev'.res = "returned")]_vars

\* a start() has just returned because the server was already running
C10_Witness ==
    /\ ev.op = "start" /\ ev.cause = "already_running"
    /\ process # None /\ osp[process] = "alive"

\* no monitor task is referenced and none is left un-cancelled
NoMonitors == ~healthTask /\ ~statusTask /\ live = 0

\* C11: in every reachable state, when the process handle is cleared no
\* un-cancelled health or resource monitor task exists, also when a stop()
\* ran while a start() was suspended awaiting a health response.
C11_MonitorsTiedToHandle == process = None => NoMonitors

\* C12: in no reachable state does a monitor task exist while a start() call
\* is launching or awaiting health, also for a start() issued after the
\* previously tracked process exited on its own.
C12_NoMonitorsDuringStart ==
    (\E c \in Callers : pc[c] \in {"probe", "get", "sleep"}) => NoMonitors

\* C13: every stop() that found a tracked process had cancelled both monitor
\* tasks when the first terminate or kill signal could go out, and every step
\* that delivers a signal leaves no monitor task un-cancelled.
C13_CancelBeforeSignal ==
    /\ ev.stop.ran => ev.stop.liveAtSignal = 0
    /\ ev.stop.kp.term = "ok" => NoMonitors

\* a stop() has just cancelled two monitor tasks and then sent terminate
C13_Witness ==
    /\ ev.op = "stop" /\ ev.stop.ran /\ ev.stop.cancelled = 2
    /\ sig[ev.stop.pid] # <<>>

\* C14: a get_status() call, whatever start() and stop() calls it interleaves
\* with, leaves the process handle, the child set and the monitor tasks
\* unchanged.
C14_StatusIsReadOnly ==
    [][\A c \in Callers :
         StatusCall(c)
         => UNCHANGED <<process, children, healthTask, statusTask, live>>]_vars

\* a get_status() has just found the tracked process gone while a start() is
\* suspended
C14_Witness ==
    /\ ev.op = "status" /\ ev.status.error = "NoSuchProcess"
    /\ process # None /\ pc["a"] # "idle"

\* C15: get_status() raises nothing, and reports running = False when no
\* process is tracked, when the tracked process has exited, and when psutil
\* reports that the pid no longer exists or is inaccessible.
C15_StatusNeverRaises ==
    ev.op = "status"
    => (/\ ev.res = "returned"
        /\ ~ev.status.raised
        /\ (\/ process = None
            \/ osp[process] # "alive"
            \/ ev.status.error \in {"NoSuchProcess", "AccessDenied"})
           => ~ev.status.running)

\* a get_status() has just been refused access to a tracked, live process
C15_Witness ==
    /\ ev.op = "status" /\ ev.status.error = "AccessDenied"
    /\ process # None /\ osp[process] = "alive"

\* C17: in the state a stop() call leaves, the process that was tracked when
\* the call began is not alive.
C17_ClearedOnlyAfterTermination ==
    ev.stop.ran => osp[ev.stop.pid] # "alive"

\* a step that runs a stop() as its own call: a task's await, or the task the
\* signal handler created
StopStep == SignalStop \/ \E c \in Callers : StopCall(c)

\* C16: of the stop() calls in flight on one manager at most one runs the
\* terminate/kill sequence against a tracked process: a stop() signals only
\* the process tracked when it began, which no stop() has signalled before;
\* one that finds the handle cleared changes nothing; none of them raises.
C16_OverlappingStops ==
    [][StopStep
       => (/\ \A p \in Pids :
                sig'[p] # sig[p] => (p = process /\ sig[p] = <<>>)
           /\ process = None => UNCHANGED mgrVars
           /\ ev'.res = "returned")]_vars

\* a stop() has just terminated the tracked process while the stop() task of
\* the signal handler is still to run
C16_Witness ==
    /\ ev.op = "stop" /\ ev.stop.ran /\ ev.stop.kp.term = "ok"
    /\ sigTasks > 0
    /\ process = None

\* C18: when a stop() has terminated the process of a running manager, the
\* process is not alive and no child process it spawned is alive.
C18_NoOrphans ==
    (ev.op = "stop" /\ ev.stop.ran /\ ev.stop.kp.term = "ok")
    => (/\ osp[ev.stop.pid] # "alive"
        /\ ev.stop.pid \notin kids)

\* the manager is stopped: nothing tracked, no monitor task
Stopped == process = None /\ NoMonitors

\* C19: a stop() task scheduled by the signal handler while process p is
\* tracked leads to a state in which the manager is stopped and p is not
\* alive.
C19_SignalLeadsToStopped ==
    \A p \in Pids :
      (sigTasks > 0 /\ process = p) ~> (Stopped /\ osp[p] # "alive")

\* C20: the monitor tasks a stop() cancelled do nothing more (no probe, no
\* sample, no failure handler) and are no monitors any longer; every step of
\* a monitor loop is taken by a task that is not cancelled; a stop() that
\* finds no monitor task referenced cancels nothing and does not fail.
C20_CancellationPromptIdempotent ==
    [][/\ ev'.stop.ran
          => (/\ ev'.stop.afterCancel = {}
              /\ live' = 0 /\ ~healthTask' /\ ~statusTask'
              /\ ~ev'.stop.raised)
       /\ (HealthProbe \/ HealthAnswer) => (healthTask /\ live > 0)
       /\ StatusSample => (statusTask /\ live > 0)
       /\ (ev'.stop.ran /\ ~healthTask /\ ~statusTask)
          => (ev'.stop.cancelled = 0 /\ live' = live)]_vars

\* a stop() has just cancelled both monitor tasks, the health task being
\* suspended in its GET
C20_Witness ==
    /\ ev.stop.ran /\ ev.stop.cancelled = 2 /\ ev.stop.inGet
    /\ live = 0

\* C21: a restart() has run stop() and then start() up to its port probe: the
\* process that was tracked is not alive and the handle is cleared before
\* start() can spawn (nothing is spawned in this step), and a restart() whose
\* stop() raised has not entered start() and leaves the manager stopped.
C21_RestartStopsThenStarts ==
    ev.op = "restart"
    => (/\ ev.stop.called
        /\ ev.spawned = None
        /\ process = None
        /\ ev.stop.ran => osp[ev.stop.pid] # "alive"
        /\ ev.res = "ServerStopError" => (Stopped /\ pc[ev.who] = "idle"))

\* C22: a startup poll ends start() successfully exactly when its GET came
\* back with status 200; any other status, a connection error or a timeout is
\* kept in last_error and the loop sleeps; start() returns successfully from
\* polling at no other step; and a GET is issued only after the exit check of
\* its iteration found the tracked process alive.
C22_Only200Succeeds ==
    [][/\ (ev'.op = "start" /\ ev'.step = "get")
          => (/\ ev'.res = "returned" <=> ev'.resp = "200"
              /\ ev'.resp # "200"
                 => (/\ ev'.res = "pending"
                     /\ pc'[ev'.who] = "sleep"
                     /\ lastError'[ev'.who] = LastErrorOf(ev'.resp)))
       /\ (ev'.op = "start" /\ ev'.res = "returned")
          => (ev'.step = "get" \/ ev'.cause = "already_running")
       /\ \A c \in Callers :
            (pc'[c] = "get" /\ pc[c] # "get")
            => (process' # None /\ osp'[process'] = "alive")]_vars

\* a startup poll has just been answered with status 500 and start() sleeps
\* before the next poll
C22_Witness ==
    /\ ev.op = "start" /\ ev.step = "get" /\ ev.resp = "500"
    /\ pc[ev.who] = "sleep"

\* the step e of a start() in which the launch failed: Popen raised, or the
\* process had exited at the check that follows the launch
SpawnFailedAt(e, o) ==
    /\ e.op = "start" /\ e.step = "probe"
    /\ \/ e.cause = "spawn_failed"
       \/ e.spawned # None /\ o[e.spawned] = "exited"

\* what C23 says of the handle and the monitors: self.process is not set to
\* the process that failed to launch, and no monitor task is created
NotAdopted ==
    /\ ev'.spawned # None => process' # ev'.spawned
    /\ live' <= live
    /\ healthTask' => healthTask
    /\ statusTask' => statusTask

\* C23 as claimed: when the process cannot be spawned or has exited at the
\* post-launch check, start() raises ServerStartError carrying the captured
\* stdout and stderr, self.process is not set to that process and no monitor
\* task is created.
C23_SpawnFailureCarriesOutput ==
    [][SpawnFailedAt(ev', osp')
       => (/\ ev'.res = "ServerStartError"
           /\ {"stdout", "stderr"} \subseteq ev'.msg
           /\ NotAdopted)]_vars

\* C23 amended: when the process cannot be spawned or has exited at the
\* post-launch check, start() raises ServerStartError with the launch error
\* in its message, self.process is not set to that process and no monitor
\* task is created; the message carries the captured stdout and stderr when a
\* process was launched and had exited; when Popen itself raised no process
\* was launched and the message carries no output.
C23_SpawnFailureReported ==
    [][SpawnFailedAt(ev', osp')
       => (/\ ev'.res = "ServerStartError"
           /\ "Failed to start process" \in ev'.msg
           /\ ev'.spawned # None => {"stdout", "stderr"} \subseteq ev'.msg
           /\ ev'.spawned = None
              => (nextPid' = nextPid
                  /\ ev'.msg \cap {"stdout", "stderr"} = {})
           /\ NotAdopted)]_vars

\* a start() has just raised because the launched process had exited at the
\* post-launch check
C23_Witness ==
    /\ ev.op = "start" /\ ev.cause = "spawn_failed"
    /\ ev.spawned # None /\ osp[ev.spawned] = "exited"
    /\ process = None

\* a step of one of the two monitor loops
MonitorStep == HealthProbe \/ HealthAnswer \/ StatusSample

\* C24: no step of the health or the resource monitor changes the process
\* handle, the child set or the monitor task references, cancels a monitor,
\* sends a signal to the process or a child, or spawns a process; a failed
\* health probe does no more than call the failure handler; and after such a
\* step the loop is still referenced, not cancelled and waiting for its next
\* poll.
C24_MonitorsOnlyObserve ==
    [][MonitorStep
       => (/\ UNCHANGED <<process, children, healthTask, statusTask, live>>
           /\ UNCHANGED <<sig, ksig, kids, nextPid, pc, sigTasks>>
           /\ ev'.msg \subseteq {"handler"}
           /\ ev'.stop = NoStop
           /\ HealthAnswer => (hpc' = "wait" /\ healthTask')
           /\ StatusSample => statusTask')]_vars

\* the health monitor has just handled a failed probe of a live, tracked
\* server and waits for its next poll
C24_Witness ==
    /\ ev.op = "monitor" /\ ev.who = "health" /\ "handler" \in ev.msg
    /\ process # None /\ osp[process] = "alive"
    /\ healthTask /\ hpc = "wait"

\* C25: the port probe answers "in use" exactly when its request came back
\* with an HTTP response, whatever the status, and "available" on a
\* connection error or a timeout; its failure is never raised to start(); and
\* neither issuing the probe nor an "in use" answer changes the manager.
C25_ProbeReadsResponse ==
    [][/\ (ev'.op = "start" /\ ev'.step = "probe")
          => (/\ ev'.resp \in HttpStatus \cup ConnFailure
              /\ ev'.cause = "port_in_use" <=> ev'.resp \in HttpStatus
              /\ ev'.resp \in HttpStatus
                 => (/\ ev'.res = "ServerStartError"
                     /\ UNCHANGED <<mgrVars, nextPid>>)
              /\ ev'.resp \in ConnFailure
                 => (/\ ev'.cause \in {"none", "spawn_failed"}
                     /\ ev'.msg \cap ConnFailure = {}))
       /\ (ev'.op = "start" /\ ev'.step = "call")
          => UNCHANGED <<mgrVars, nextPid>>]_vars

\* a port probe has just been answered with status 500 and start() has
\* raised "port in use"
C25_Witness ==
    /\ ev.op = "start" /\ ev.step = "probe" /\ ev.resp = "500"
    /\ ev.cause = "port_in_use"

\* C26: while a start() is suspended in its port probe, the address the
\* probe's request goes to is the configured host, the one the startup health
\* polls go to and the launched server binds.
C26_ProbeTargetsConfiguredHost ==
    (\E c \in Callers : pc[c] = "probe") => Resolve(ProbeUrlHost) = cfgHost

\* C27: a step of start() is suspended again, returns, or raises
\* ServerStartError, nothing else, also when the cleanup stop() of a failing
\* start() met a failure of its own; and one start() call spawns at most one
\* process: a process is spawned only by the step that resumes a start() from
\* its port probe, and a call is at its port probe only once, right after it
\* was made.
C27_OnlyStartError ==
    [][/\ ev'.op = "start"
          => ev'.res \in {"pending", "returned", "ServerStartError"}
       /\ nextPid' # nextPid
          => (/\ nextPid' = nextPid + 1
              /\ ev'.op = "start" /\ ev'.step = "probe"
              /\ pc[ev'.who] = "probe" /\ mine[ev'.who] = None)
       /\ \A c \in Callers :
            /\ (pc'[c] = "probe" /\ pc[c] # "probe")
               => (pc[c] = "idle" /\ ev'.who = c /\ ev'.step = "call")
            /\ (ev'.who = c /\ ev'.step = "probe") => pc'[c] # "probe"]_vars

\* a start() has just raised ServerStartError after a cleanup stop() whose
\* terminate() had failed
C27_Witness ==
    /\ ev.op = "start" /\ ev.res = "ServerStartError"
    /\ ev.stop.ran /\ ev.stop.kp.term = "error"

\* no start() is suspended
NoStartInProgress == \A c \in Callers : pc[c] \notin {"probe", "get", "sleep"}

\* C28: when a start() has been cancelled while suspended in health polling,
\* the process it had spawned is not alive and the handle is cleared; and in
\* no state does the manager track a live process with no monitor task and no
\* start() in progress.
C28_CancelledStartCleansUp ==
    /\ ev.res = "CancelledError"
       => (process = None /\ (ev.mine # None => osp[ev.mine] # "alive"))
    /\ ~(/\ process # None /\ osp[process] = "alive"
         /\ NoMonitors /\ NoStartInProgress)

\* C29: when __exit__ or __aexit__ has returned, the process that was tracked
\* is not alive, the handle is cleared and no monitor task is left.
C29_ContextExitStops ==
    [][ev'.op \in {"exit", "aexit"}
       => (/\ process' = None
           /\ ~healthTask' /\ ~statusTask' /\ live' = 0
           /\ process # None => osp'[process] # "alive")]_vars

\* C30: under fair scheduling every start() that is suspended (in its port
\* probe, a health GET or a sleep) returns or raises, and every step that ran
\* a stop() has ended with the handle cleared, returning or raising
\* ServerStopError or, for a start()'s cleanup, ServerStartError.
C30_CallsTerminate ==
    /\ \A c \in Callers :
         (pc[c] \in {"probe", "get", "sleep"}) ~> (pc[c] = "idle")
    /\ [](ev.stop.called
          => (/\ process = None
              /\ ev.res \in {"returned", "pending", "ServerStopError",
                              "ServerStartError"}))

\* a start() whose polls never met a 200 has just ended at its deadline
C30_Witness ==
    /\ ev.op = "start" /\ ev.cause = "timeout"
    /\ ev.took >= STARTUP_TIMEOUT * TicksPerSecond
    /\ pc[ev.who] = "idle"
====
